---- MODULE Spec2Model ----
(***************************************************************************)
(* PetrovichAI: the decision-and-orchestration engine.                     *)
(*                                                                         *)
(* State machine of workflow_controller.py (the LangGraph flow: decision   *)
(* router, node_llm_query, tools, the two history truncation phases) and   *)
(* of telegram_message_handler.py (dispatch by content type, reply sink).  *)
(*                                                                         *)
(* Text is a sequence of one-character strings.  Cyrillic letters are      *)
(* written as "cy_x" (lower case) and "CY_X" (upper case).  Probabilities  *)
(* and the threshold are kept in hundredths (0.50 is 50).                  *)
(***************************************************************************)
EXTENDS Integers, Sequences, FiniteSets, TLC

VARIABLES
    config,     \* ConfigManager: the three settings read at start-up
    messages,   \* checkpointed MessagesState["messages"], per thread_id
    pc,         \* node of the graph the running cycle is at; "idle": waiting
                \* for an update; "returned": the handler is over
    cycle,      \* the event being handled and what its cycle did so far
    sent,       \* telegram_message.reply calls made for the current event
    chats,      \* the chats events arrive from
    nEvents,    \* number of events routed so far
    tasks,      \* handler coroutines suspended at an await
    call        \* a function called on its own: arguments and result

vars == <<config, messages, pc, cycle, sent, chats, nEvents, tasks, call>>

----------------------------------------------------------------------------
(* Bounds of the model *)

MaxEvents == 2
MaxToolIters == 1
MaxLimit == 2
MaxHist == 4

----------------------------------------------------------------------------
(* Text *)

lower_char(c) ==
    CASE c = "B" -> "b"
      [] c = "O" -> "o"
      [] c = "T" -> "t"
      [] c = "A" -> "a"
      [] c = "I" -> "i"
      [] c = "CY_B" -> "cy_b"
      [] c = "CY_O" -> "cy_o"
      [] c = "CY_T" -> "cy_t"
      [] c = "CY_P" -> "cy_p"
      [] OTHER -> c

lower(s) == [i \in DOMAIN s |-> lower_char(s[i])]

\* Python's "needle in haystack" on strings
contains(haystack, needle) ==
    \E i \in 0..(Len(haystack) - Len(needle)) :
        SubSeq(haystack, i + 1, i + Len(needle)) = needle

is_space(c) == c \in {" ", "\n", "\t"}

RECURSIVE lstrip(_)
lstrip(s) == IF s # <<>> /\ is_space(Head(s)) THEN lstrip(Tail(s)) ELSE s

RECURSIVE rstrip(_)
rstrip(s) ==
    IF s # <<>> /\ is_space(s[Len(s)]) THEN rstrip(SubSeq(s, 1, Len(s) - 1)) ELSE s

strip(s) == rstrip(lstrip(s))

Digits == {"0", "1", "2", "3", "4", "5", "6", "7", "8", "9"}

digit_value(c) ==
    CASE c = "0" -> 0 [] c = "1" -> 1 [] c = "2" -> 2 [] c = "3" -> 3
      [] c = "4" -> 4 [] c = "5" -> 5 [] c = "6" -> 6 [] c = "7" -> 7
      [] c = "8" -> 8 [] c = "9" -> 9

all_digits(s) == \A i \in DOMAIN s : s[i] \in Digits

RECURSIVE int_value(_)
int_value(s) ==
    IF s = <<>> THEN 0
    ELSE 10 * int_value(SubSeq(s, 1, Len(s) - 1)) + digit_value(s[Len(s)])

\* value of the fractional digits in hundredths; the responses of the model
\* carry at most two fractional digits, so nothing is rounded away
frac_hundredths(s) ==
    CASE Len(s) = 0 -> 0
      [] Len(s) = 1 -> 10 * digit_value(s[1])
      [] OTHER -> 10 * digit_value(s[1]) + digit_value(s[2])

ValueError == [ok |-> FALSE, value |-> 0]

\* float(str) on decimal literals: surrounding white space is stripped, an
\* optional sign, digits with an optional fractional part; anything else
\* raises ValueError.  The value is in hundredths.
float(text) ==
    LET s == strip(text)
        signed == s # <<>> /\ s[1] \in {"+", "-"}
        sign == IF signed /\ s[1] = "-" THEN -1 ELSE 1
        body == IF signed THEN Tail(s) ELSE s
        dots == {i \in DOMAIN body : body[i] = "."}
        dot == IF dots = {} THEN Len(body) + 1 ELSE CHOOSE i \in dots : TRUE
        ipart == SubSeq(body, 1, dot - 1)
        fpart == SubSeq(body, dot + 1, Len(body))
    IN  IF /\ Cardinality(dots) <= 1
           /\ all_digits(ipart)
           /\ all_digits(fpart)
           /\ Len(ipart) + Len(fpart) > 0
        THEN [ok |-> TRUE, value |-> sign * (100 * int_value(ipart) + frac_hundredths(fpart))]
        ELSE ValueError

----------------------------------------------------------------------------
(* Configuration and fixed texts *)

\* settings config.ini can hold (hundredths for the two floats)
Probabilities == {50, 100}
Thresholds == {50}
HistoryLimits == 0..MaxLimit

Configs ==
    [RANDOM_RESPONSE_PROBABILITY : Probabilities,
     LLM_DECISSION_TO_RESPOND_THRESHOLD : Thresholds,
     MESSAGE_HISTORY_LIMIT : HistoryLimits]

\* random.random() returns a value in [0, 1)
RandomDraws == {0, 50}

Threads == {"chat1", "chat2"}

BOT_USERNAME == <<"a", "i">>

SYSTEM_PROMPT == <<"S", "Y", "S">>
SYSTEM_PROMPT_SHOULD_RESPOND == SYSTEM_PROMPT \o <<"?">>

user_name == <<"U">>

\* texts a user can type, say or caption
T_hi == <<"h", "i">>
T_BoT == <<"B", "o", "T">>
UserTexts == {T_hi, T_BoT}

\* answers the secondary model can give
R_087 == <<"0", ".", "8", "7">>
R_030 == <<" ", "0", ".", "3", "0", "\n">>
R_050 == <<"0", ".", "5", "0">>
R_words == <<"n", "o", "t", " ", "a", " ", "n", "u", "m", "b", "e", "r">>
R_empty == <<>>
SecondaryResponses == {R_087, R_030, R_050, R_words, R_empty}

\* answers of the primary model
A_ok == <<"o", "k">>
PrimaryAnswers == {A_ok}

----------------------------------------------------------------------------
(* Messages *)

HumanMessage(id, content, no_answer) ==
    [id |-> id, type |-> "human", content |-> content,
     tool_calls |-> FALSE, no_answer |-> no_answer]

AIMessage(id, content, tool_calls) ==
    [id |-> id, type |-> "ai", content |-> content,
     tool_calls |-> tool_calls, no_answer |-> FALSE]

SystemMessage(id, content) ==
    [id |-> id, type |-> "system", content |-> content,
     tool_calls |-> FALSE, no_answer |-> FALSE]

ToolMessage(id, content) ==
    [id |-> id, type |-> "tool", content |-> content,
     tool_calls |-> FALSE, no_answer |-> FALSE]

RemoveMessage(id) ==
    [id |-> id, type |-> "remove", content |-> <<>>,
     tool_calls |-> FALSE, no_answer |-> FALSE]

\* the id given to a message that has none (uuid4): one no message of the
\* thread carries
fresh_id(msgs) ==
    CHOOSE k \in 1..(Len(msgs) + 1) :
        /\ \A i \in DOMAIN msgs : msgs[i].id # k
        /\ \A j \in 1..(k - 1) : \E i \in DOMAIN msgs : msgs[i].id = j

\* [RemoveMessage(id=m.id) for m in picked]
removals(picked) == [i \in DOMAIN picked |-> RemoveMessage(picked[i].id)]

\* the reducer of MessagesState: a RemoveMessage deletes every message that
\* carries its id, any other message is appended (new messages carry fresh ids)
add_messages(left, right) ==
    LET removed == {right[i].id : i \in {j \in DOMAIN right : right[j].type = "remove"}}
        appended == SelectSeq(right, LAMBDA m : m.type # "remove")
    IN  SelectSeq(left \o appended, LAMBDA m : m.id \notin removed)

\* seq[:-n] of Python
slice_to_minus(seq, n) ==
    LET stop == IF n > 0 THEN Len(seq) - n ELSE -n
        last == IF stop < 0 THEN 0 ELSE IF stop > Len(seq) THEN Len(seq) ELSE stop
    IN  SubSeq(seq, 1, last)

\* seq[-n:] of Python
slice_from_minus(seq, n) ==
    LET start == IF n > 0 THEN Len(seq) - n ELSE -n
        first == IF start < 0 THEN 0 ELSE IF start > Len(seq) THEN Len(seq) ELSE start
    IN  SubSeq(seq, first + 1, Len(seq))

----------------------------------------------------------------------------
(* Response-decision policy *)

KEYWORDS(bot_username) ==
    {<<"cy_p", "cy_e", "cy_t", "cy_r", "cy_o", "cy_v", "cy_i", "cy_ch">>,
     <<"cy_b", "cy_o", "cy_t">>,
     <<"b", "o", "t">>,
     <<"@">> \o bot_username}

\* variant: the text is searched as typed, without lower()
_is_bot_mentioned_as_typed(message, bot_username) ==
    IF message = <<>> THEN FALSE
    ELSE \E keyword \in KEYWORDS(bot_username) : contains(message, keyword)

\* variant: the handle is empty, the last keyword is a bare "@"
_is_bot_mentioned_bare_at(message, bot_username) ==
    IF message = <<>> THEN FALSE
    ELSE LET lower_text == lower(message)
         IN  \E keyword \in KEYWORDS(<<>>) : contains(lower_text, keyword)

_is_bot_mentioned(message, bot_username) ==
    IF message = <<>> THEN FALSE
    ELSE LET lower_text == lower(message)
         IN  \E keyword \in KEYWORDS(bot_username) : contains(lower_text, keyword)

HISTORY_LENGTH_TO_ANALYZE == 6

\* variant: the system messages are dropped before the last six are taken
should_respond_prompt_strip_first(state_messages) ==
    LET kept == SelectSeq(state_messages, LAMBDA m : m.type # "system")
        message_history == slice_from_minus(kept, HISTORY_LENGTH_TO_ANALYZE)
    IN  <<SystemMessage(0, SYSTEM_PROMPT_SHOULD_RESPOND)>> \o message_history
            \o <<SystemMessage(0, SYSTEM_PROMPT_SHOULD_RESPOND)>>

\* the turn list handed to llmShouldReply
should_respond_prompt(state_messages) ==
    LET message_history == slice_from_minus(state_messages, HISTORY_LENGTH_TO_ANALYZE)
        kept == SelectSeq(message_history, LAMBDA m : m.type # "system")
    IN  <<SystemMessage(0, SYSTEM_PROMPT_SHOULD_RESPOND)>> \o kept
            \o <<SystemMessage(0, SYSTEM_PROMPT_SHOULD_RESPOND)>>

\* variant: llmShouldReply is asked before the cheap checks are looked at
_bot_should_respond_eager(state_messages, bot_username, draw, response) ==
    LET last_message == state_messages[Len(state_messages)].content
        reply_probability == float(response)
    IN  [result |-> \/ draw < config.RANDOM_RESPONSE_PROBABILITY
                    \/ _is_bot_mentioned(last_message, bot_username)
                    \/ /\ reply_probability.ok
                       /\ reply_probability.value
                              > config.LLM_DECISSION_TO_RESPOND_THRESHOLD,
         mention_checked |-> TRUE,
         secondary_calls |-> 1,
         response |-> response]

\* variant: the comparison with the threshold is >=
_bot_should_respond_geq(state_messages, bot_username, draw, response) ==
    LET last_message == state_messages[Len(state_messages)].content
    IN  IF draw < config.RANDOM_RESPONSE_PROBABILITY
        THEN [result |-> TRUE, mention_checked |-> FALSE,
              secondary_calls |-> 0, response |-> <<>>]
        ELSE IF _is_bot_mentioned(last_message, bot_username)
        THEN [result |-> TRUE, mention_checked |-> TRUE,
              secondary_calls |-> 0, response |-> <<>>]
        ELSE LET reply_probability == float(response)
             IN  [result |-> /\ reply_probability.ok
                             /\ reply_probability.value
                                    >= config.LLM_DECISSION_TO_RESPOND_THRESHOLD,
                  mention_checked |-> TRUE,
                  secondary_calls |-> 1,
                  response |-> response]

\* variant: an answer that does not parse counts as engagement
_bot_should_respond_fail_open(state_messages, bot_username, draw, response) ==
    LET last_message == state_messages[Len(state_messages)].content
    IN  IF draw < config.RANDOM_RESPONSE_PROBABILITY
        THEN [result |-> TRUE, mention_checked |-> FALSE,
              secondary_calls |-> 0, response |-> <<>>]
        ELSE IF _is_bot_mentioned(last_message, bot_username)
        THEN [result |-> TRUE, mention_checked |-> TRUE,
              secondary_calls |-> 0, response |-> <<>>]
        ELSE LET reply_probability == float(response)
             IN  [result |-> \/ ~reply_probability.ok
                             \/ reply_probability.value
                                    > config.LLM_DECISSION_TO_RESPOND_THRESHOLD,
                  mention_checked |-> TRUE,
                  secondary_calls |-> 1,
                  response |-> response]

\* draw is what random.random() returns, response what llmShouldReply answers
\* when it is asked.  The record tells the result and which checks ran:
\* whether the mention detector was evaluated, how many times llmShouldReply
\* was invoked and the answer it gave.
_bot_should_respond(state_messages, bot_username, draw, response) ==
    LET last_message == state_messages[Len(state_messages)].content
    IN  IF draw < config.RANDOM_RESPONSE_PROBABILITY
        THEN [result |-> TRUE, mention_checked |-> FALSE,
              secondary_calls |-> 0, response |-> <<>>]
        ELSE IF _is_bot_mentioned(last_message, bot_username)
        THEN [result |-> TRUE, mention_checked |-> TRUE,
              secondary_calls |-> 0, response |-> <<>>]
        ELSE LET reply_probability == float(response)
             IN  [result |-> /\ reply_probability.ok
                             /\ reply_probability.value
                                    > config.LLM_DECISSION_TO_RESPOND_THRESHOLD,
                  mention_checked |-> TRUE,
                  secondary_calls |-> 1,
                  response |-> response]

\* bot_should_respond returned before any check ran
NotConsulted == [result |-> FALSE, mention_checked |-> FALSE,
                 secondary_calls |-> 0, response |-> <<>>]

\* the public entry used for captions of photos and documents
bot_should_respond(message, draw, response) ==
    IF message = <<>> THEN NotConsulted
    ELSE _bot_should_respond(<<HumanMessage(0, message, FALSE)>>, BOT_USERNAME, draw, response)

_bot_should_respond_router(decision) ==
    IF decision.result THEN "node_llm_query" ELSE "node_truncate_message_history_phase1"

\* variant: the tool calls of the response are not looked at
_tool_router_never_tools(state_messages) ==
    "node_truncate_message_history_phase1"

_tool_router(state_messages) ==
    IF state_messages[Len(state_messages)].tool_calls
    THEN "tools"
    ELSE "node_truncate_message_history_phase1"

----------------------------------------------------------------------------
(* History truncation *)

\* variant: AI messages with tool calls are left in place
_node_truncate_message_history_phase1_keep_calls(state_messages) ==
    LET deleted_tool_messages ==
            removals(SelectSeq(state_messages, LAMBDA m : m.type = "tool"))
        deleted_system_messages ==
            removals(SelectSeq(state_messages, LAMBDA m : m.type = "system"))
    IN  deleted_tool_messages \o deleted_system_messages

\* variant: tool messages are left in place
_node_truncate_message_history_phase1_keep_results(state_messages) ==
    LET deleted_system_messages ==
            removals(SelectSeq(state_messages, LAMBDA m : m.type = "system"))
        deleted_toolcalls_messages ==
            removals(SelectSeq(state_messages, LAMBDA m : m.type = "ai" /\ m.tool_calls))
    IN  deleted_system_messages \o deleted_toolcalls_messages

_node_truncate_message_history_phase1(state_messages) ==
    LET deleted_tool_messages ==
            removals(SelectSeq(state_messages, LAMBDA m : m.type = "tool"))
        deleted_system_messages ==
            removals(SelectSeq(state_messages, LAMBDA m : m.type = "system"))
        deleted_toolcalls_messages ==
            removals(SelectSeq(state_messages, LAMBDA m : m.type = "ai" /\ m.tool_calls))
    IN  deleted_tool_messages \o deleted_system_messages \o deleted_toolcalls_messages

_node_truncate_message_history_phase2(state_messages) ==
    LET msgs_to_keep == config.MESSAGE_HISTORY_LIMIT
    IN  removals(slice_to_minus(state_messages, msgs_to_keep))

----------------------------------------------------------------------------
(* The event being handled *)

\* no function is called on its own
NoCall == [fn |-> "none"]

NoCycle ==
    [thread |-> "chat1", kind |-> "none", text |-> <<>>, no_answer |-> FALSE,
     draw |-> 0, decided |-> FALSE, decision |-> NotConsulted,
     llm_queries |-> 0, tool_runs |-> 0, phase1_runs |-> 0, phase2_runs |-> 0,
     pre_prune |-> <<>>, outcome |-> "none", temp_files |-> {}]

NewCycle(thread, kind, text, no_answer, draw, decided, decision) ==
    [NoCycle EXCEPT !.thread = thread, !.kind = kind, !.text = text,
                    !.no_answer = no_answer, !.draw = draw,
                    !.decided = decided, !.decision = decision,
                    !.outcome = "running"]

\* fixed parts of the texts the handler builds ("cy:..." stands for one
\* Cyrillic phrase that holds no keyword)
VOICE_FROM == <<"cy:voice message from ">>
VIDEO_FROM == <<"cy:video message from ">>
VIDEO_TRANSCRIPT == <<".", " ", "cy:audio transcript", ":", " ">>
VIDEO_CAPTION == <<",", " ", "cy:user caption", ":", " ">>
ABSENT == <<"cy:absent">>

text_input(text) == user_name \o <<":", " ">> \o text

voice_input(transcription) == VOICE_FROM \o user_name \o <<":", " ">> \o transcription

video_input(transcription, caption) ==
    VIDEO_FROM \o user_name
        \o VIDEO_TRANSCRIPT \o (IF transcription = <<>> THEN ABSENT ELSE transcription)
        \o VIDEO_CAPTION \o (IF caption = <<>> THEN ABSENT ELSE caption)

TypeOK ==
    /\ config \in Configs
    /\ pc \in {"idle", "returned", "node_llm_query", "tools",
               "node_truncate_message_history_phase1",
               "node_truncate_message_history_phase2", "end"}
    /\ DOMAIN messages = Threads
    /\ chats \subseteq Threads
    /\ nEvents \in 0..MaxEvents
    /\ \A task \in tasks : task.thread \in Threads

Init ==
    /\ config \in Configs
    /\ messages = [t \in Threads |-> <<>>]
    /\ pc = "idle"
    /\ cycle = NoCycle
    /\ sent = <<>>
    /\ chats = {"chat1"}
    /\ nEvents = 0
    /\ tasks = {}
    /\ call = NoCall

----------------------------------------------------------------------------
(* The graph, one action per superstep *)

\* variant: the system prompt is appended without looking for it
llm_input_always_appends(state_messages) ==
    Append(state_messages, SystemMessage(fresh_id(state_messages), SYSTEM_PROMPT))

\* the list node_llm_query hands to llmMain: the messages of the state, with
\* the system prompt appended when no message of the state is that prompt
llm_input(state_messages) ==
    IF \E i \in DOMAIN state_messages :
           /\ state_messages[i].type = "system"
           /\ state_messages[i].content = SYSTEM_PROMPT
    THEN state_messages
    ELSE Append(state_messages, SystemMessage(fresh_id(state_messages), SYSTEM_PROMPT))

\* variant: every chat is given the same thread_id
invoke_flow_one_thread(thread, kind, content, no_answer, draw, response) ==
    LET thread_id == "chat1"
        input_message == HumanMessage(fresh_id(messages[thread_id]), content, no_answer)
        state == add_messages(messages[thread_id], <<input_message>>)
        decision == _bot_should_respond(state, BOT_USERNAME, draw, response)
    IN  /\ messages' = [messages EXCEPT ![thread_id] = state]
        /\ pc' = _bot_should_respond_router(decision)
        /\ cycle' = NewCycle(thread, kind, input_message.content,
                             input_message.no_answer, draw, TRUE, decision)
        /\ nEvents' = nEvents + 1

\* graph.invoke: the input is written to the thread and the conditional edge
\* out of START runs the decision router
invoke_flow(thread, kind, content, no_answer, draw, response) ==
    LET input_message == HumanMessage(fresh_id(messages[thread]), content, no_answer)
        state == add_messages(messages[thread], <<input_message>>)
        decision == _bot_should_respond(state, BOT_USERNAME, draw, response)
    IN  /\ messages' = [messages EXCEPT ![thread] = state]
        /\ pc' = _bot_should_respond_router(decision)
        /\ cycle' = NewCycle(thread, kind, input_message.content,
                             input_message.no_answer, draw, TRUE, decision)
        /\ nEvents' = nEvents + 1

\* node_llm_query followed by its conditional edge (_tool_router): the model
\* answers with a tool request or with a text
_node_llm_query(wants_tool, answer) ==
    LET thread == cycle.thread
        with_prompt == llm_input(messages[thread])
        response == AIMessage(fresh_id(with_prompt),
                              IF wants_tool THEN <<>> ELSE answer, wants_tool)
        state == add_messages(with_prompt, <<response>>)
    IN  /\ messages' = [messages EXCEPT ![thread] = state]
        /\ pc' = _tool_router(state)

NodeLlmQuery ==
    /\ pc = "node_llm_query"
    /\ \E wants_tool \in BOOLEAN, answer \in PrimaryAnswers :
        /\ wants_tool => cycle.tool_runs < MaxToolIters
        /\ _node_llm_query(wants_tool, answer)
    /\ cycle' = [cycle EXCEPT !.llm_queries = @ + 1]
    /\ UNCHANGED <<call, config, sent, chats, tasks, nEvents>>

\* llmMain.invoke raises: nothing catches it, graph.invoke and the handler
\* end with the exception; the thread keeps the last checkpoint
NodeLlmQueryRaises ==
    /\ pc = "node_llm_query"
    /\ pc' = "returned"
    /\ cycle' = [cycle EXCEPT !.llm_queries = @ + 1, !.outcome = "raised"]
    /\ UNCHANGED <<call, config, messages, sent, chats, tasks, nEvents>>

\* ToolNode: one ToolMessage for the tool call of the last message
NodeTools ==
    /\ pc = "tools"
    /\ messages' = [messages EXCEPT ![cycle.thread] =
                        add_messages(@, <<ToolMessage(fresh_id(@), <<"r", "e", "s">>)>>)]
    /\ pc' = "node_llm_query"
    /\ cycle' = [cycle EXCEPT !.tool_runs = @ + 1]
    /\ UNCHANGED <<call, config, sent, chats, tasks, nEvents>>

NodeTruncatePhase1 ==
    /\ pc = "node_truncate_message_history_phase1"
    /\ messages' = [messages EXCEPT ![cycle.thread] =
                        add_messages(@, _node_truncate_message_history_phase1(@))]
    /\ pc' = "node_truncate_message_history_phase2"
    /\ cycle' = [cycle EXCEPT !.phase1_runs = @ + 1,
                              !.pre_prune = messages[cycle.thread]]
    /\ UNCHANGED <<call, config, sent, chats, tasks, nEvents>>

NodeTruncatePhase2 ==
    /\ pc = "node_truncate_message_history_phase2"
    /\ messages' = [messages EXCEPT ![cycle.thread] =
                        add_messages(@, _node_truncate_message_history_phase2(@))]
    /\ pc' = "end"
    /\ cycle' = [cycle EXCEPT !.phase2_runs = @ + 1]
    /\ UNCHANGED <<call, config, sent, chats, tasks, nEvents>>

----------------------------------------------------------------------------
(* route_incoming_message, by content type *)

Captions == UserTexts \cup {<<>>}

\* what the transcriber returns for a voice message that has speech
Transcriptions == {T_hi}

\* what a video carries: the transcription of its sound (empty: none, or the
\* transcription failed) and the caption
Videos ==
    {[transcription |-> T_hi, caption |-> <<>>],
     [transcription |-> <<>>, caption |-> T_BoT]}

\* the temporary files the handlers write
VOICE_PATH == "temp_{file_id}.ogg"
IMAGE_PATH == "temp_{file_id}.jpg"

RouteText ==
    /\ pc = "idle" /\ nEvents < MaxEvents
    /\ \E thread \in chats, text \in UserTexts,
          draw \in RandomDraws, response \in SecondaryResponses :
        invoke_flow(thread, "text", text_input(text), FALSE, draw, response)
    /\ sent' = <<>>
    /\ UNCHANGED <<call, config, chats, tasks>>

\* the transcription is posted to the chat, then handled like a text message
RouteVoice ==
    /\ pc = "idle" /\ nEvents < MaxEvents
    /\ \E thread \in chats, transcription \in Transcriptions,
          draw \in RandomDraws, response \in SecondaryResponses :
        LET input_message_text == voice_input(transcription)
        IN  /\ invoke_flow(thread, "voice", input_message_text, FALSE, draw, response)
            /\ sent' = <<input_message_text>>
    /\ UNCHANGED <<call, config, chats, tasks>>

\* an empty transcription: nothing is stored, nothing is sent
RouteVoiceNoTranscription ==
    /\ pc = "idle" /\ nEvents < MaxEvents
    /\ \E thread \in chats :
        cycle' = [NewCycle(thread, "voice", <<>>, FALSE, 0, FALSE, NotConsulted)
                      EXCEPT !.outcome = "suppressed"]
    /\ sent' = <<>>
    /\ pc' = "returned"
    /\ nEvents' = nEvents + 1
    /\ UNCHANGED <<call, config, messages, chats, tasks>>

\* _handle_voice_message raises: bot.get_file or bot.download_file (nothing
\* was written), or transcriber.transcribe (the downloaded file stays, the
\* os.remove below it is not reached).  Nothing catches it.
RouteVoiceRaises ==
    /\ pc = "idle" /\ nEvents < MaxEvents
    /\ \E thread \in chats, downloaded \in BOOLEAN :
        cycle' = [NewCycle(thread, "voice", <<>>, FALSE, 0, FALSE, NotConsulted)
                      EXCEPT !.outcome = "raised",
                             !.temp_files = IF downloaded THEN {VOICE_PATH} ELSE {}]
    /\ sent' = <<>>
    /\ pc' = "returned"
    /\ nEvents' = nEvents + 1
    /\ UNCHANGED <<call, config, messages, chats, tasks>>

\* bot.download_file raises in _handle_video_message: nothing catches it
RouteVideoDownloadRaises ==
    /\ pc = "idle" /\ nEvents < MaxEvents
    /\ \E thread \in chats :
        cycle' = [NewCycle(thread, "video", <<>>, TRUE, 0, FALSE, NotConsulted)
                      EXCEPT !.outcome = "raised"]
    /\ sent' = <<>>
    /\ pc' = "returned"
    /\ nEvents' = nEvents + 1
    /\ UNCHANGED <<call, config, messages, chats, tasks>>

\* _handle_video_message gives up before the flow: no file info, or too large
RouteVideoSkipped ==
    /\ pc = "idle" /\ nEvents < MaxEvents
    /\ \E thread \in chats :
        cycle' = [NewCycle(thread, "video", <<>>, TRUE, 0, FALSE, NotConsulted)
                      EXCEPT !.outcome = "suppressed"]
    /\ sent' = <<>>
    /\ pc' = "returned"
    /\ nEvents' = nEvents + 1
    /\ UNCHANGED <<call, config, messages, chats, tasks>>

\* the transcript (or its absence) is passed into the flow with no_answer set
RouteVideo ==
    /\ pc = "idle" /\ nEvents < MaxEvents
    /\ \E thread \in chats, video \in Videos,
          draw \in RandomDraws, response \in SecondaryResponses :
        invoke_flow(thread, "video",
                    video_input(video.transcription, video.caption), TRUE,
                    draw, response)
    /\ sent' = <<>>
    /\ UNCHANGED <<call, config, chats, tasks>>

\* photo or document: the decision is taken on the caption, outside the graph;
\* when it engages, llmMain is invoked directly and its answer is the reply.
\* The handler raises when the download fails (nothing was written) or when
\* llmMain.invoke fails (the downloaded file stays).
RoutePhotoOrDocument ==
    /\ pc = "idle" /\ nEvents < MaxEvents
    /\ \E thread \in chats, kind \in {"photo", "document"}, caption \in Captions,
          draw \in RandomDraws, response \in SecondaryResponses :
        LET decision == bot_should_respond(caption, draw, response)
            started == NewCycle(thread, kind, caption, FALSE, draw, TRUE, decision)
        IN  IF ~decision.result
            THEN /\ cycle' = [started EXCEPT !.outcome = "suppressed"]
                 /\ sent' = <<>>
            ELSE \/ /\ cycle' = [started EXCEPT !.outcome = "raised"]
                    /\ sent' = <<>>
                 \/ /\ cycle' = [started EXCEPT !.llm_queries = 1, !.outcome = "raised",
                                                !.temp_files = {IMAGE_PATH}]
                    /\ sent' = <<>>
                 \/ \E answer \in PrimaryAnswers :
                        /\ cycle' = [started EXCEPT !.llm_queries = 1,
                                                    !.outcome = "replied"]
                        /\ sent' = <<answer>>
    /\ pc' = "returned"
    /\ nEvents' = nEvents + 1
    /\ UNCHANGED <<call, config, messages, chats, tasks>>

\* the events the decision policy is applied to
PolicyEvents ==
    {[kind |-> "text", content |-> text_input(text), no_answer |-> FALSE] :
        text \in UserTexts}
    \cup {[kind |-> "voice", content |-> voice_input(transcription), no_answer |-> FALSE] :
              transcription \in Transcriptions}
    \cup {[kind |-> "video", content |-> video_input(video.transcription, video.caption),
           no_answer |-> TRUE] : video \in Videos}
    \cup {[kind |-> kind, content |-> caption, no_answer |-> FALSE] :
              kind \in {"photo", "document"}, caption \in UserTexts}

\* llmShouldReply.invoke raises, in the router of START (text, voice, video) or
\* in bot_should_respond (photo, document); nothing catches it.  The write of
\* the input belongs to the step that failed: the thread keeps its last
\* checkpoint.  The transcription of a voice message was posted before.
SecondaryModelRaises ==
    /\ pc = "idle" /\ nEvents < MaxEvents
    /\ \E thread \in chats, event \in PolicyEvents, draw \in RandomDraws :
        /\ ~(draw < config.RANDOM_RESPONSE_PROBABILITY)
        /\ ~_is_bot_mentioned(event.content, BOT_USERNAME)
        /\ cycle' = [NewCycle(thread, event.kind, event.content, event.no_answer,
                              draw, FALSE,
                              [NotConsulted EXCEPT !.mention_checked = TRUE,
                                                   !.secondary_calls = 1])
                         EXCEPT !.outcome = "raised"]
        /\ sent' = IF event.kind = "voice" THEN <<event.content>> ELSE <<>>
    /\ pc' = "returned"
    /\ nEvents' = nEvents + 1
    /\ UNCHANGED <<call, config, messages, chats, tasks>>

\* variant: the video branch falls through to the reply like text and voice
ReturnFromFlow_video_replies ==
    /\ pc = "end"
    /\ pc' = "returned"
    /\ LET output == messages[cycle.thread]
           last == output[Len(output)]
       IN  IF output # <<>> /\ last.type = "ai" /\ last.content # <<>>
           THEN /\ cycle' = [cycle EXCEPT !.outcome = "replied"]
                /\ sent' = Append(sent, last.content)
           ELSE /\ cycle' = [cycle EXCEPT !.outcome = "suppressed"]
                /\ sent' = sent
    /\ UNCHANGED <<call, config, messages, chats, tasks, nEvents>>

\* graph.invoke returned: text and voice reply with the last message when it
\* is an AI message; video returns without replying
ReturnFromFlow ==
    /\ pc = "end"
    /\ pc' = "returned"
    /\ LET output == messages[cycle.thread]
           last == output[Len(output)]
       IN  IF cycle.kind = "video"
           THEN /\ cycle' = [cycle EXCEPT !.outcome = "suppressed"]
                /\ sent' = sent
           ELSE IF output = <<>>
           THEN /\ cycle' = [cycle EXCEPT !.outcome = "raised"]
                /\ sent' = sent
           ELSE IF last.type = "ai" /\ last.content # <<>>
           THEN /\ cycle' = [cycle EXCEPT !.outcome = "replied"]
                /\ sent' = Append(sent, last.content)
           ELSE /\ cycle' = [cycle EXCEPT !.outcome = "suppressed"]
                /\ sent' = sent
    /\ UNCHANGED <<call, config, messages, chats, tasks, nEvents>>

\* the dispatcher takes the next update
NextUpdate ==
    /\ pc = "returned"
    /\ pc' = "idle"
    /\ cycle' = NoCycle
    /\ sent' = <<>>
    /\ UNCHANGED <<call, config, messages, chats, tasks, nEvents>>

Next ==
    \/ NextUpdate
    \/ RouteText
    \/ RouteVoice
    \/ RouteVoiceNoTranscription
    \/ RouteVideoSkipped
    \/ RouteVideo
    \/ RoutePhotoOrDocument
    \/ RouteVoiceRaises
    \/ RouteVideoDownloadRaises
    \/ SecondaryModelRaises
    \/ NodeLlmQuery
    \/ NodeLlmQueryRaises
    \/ NodeTools
    \/ NodeTruncatePhase1
    \/ NodeTruncatePhase2
    \/ ReturnFromFlow

Spec == Init /\ [][Next]_vars

----------------------------------------------------------------------------
(* Events of two chats, one after the other, under one configuration *)

InitTwoChats ==
    /\ config \in {c \in Configs : /\ c.RANDOM_RESPONSE_PROBABILITY = 50
                                    /\ c.MESSAGE_HISTORY_LIMIT = 1}
    /\ messages = [t \in Threads |-> <<>>]
    /\ pc = "idle"
    /\ cycle = NoCycle
    /\ sent = <<>>
    /\ chats = Threads
    /\ nEvents = 0
    /\ tasks = {}
    /\ call = NoCall

SpecTwoChats == InitTwoChats /\ [][Next]_vars

----------------------------------------------------------------------------
(* Handlers as coroutines of one event loop.  A handler runs until it awaits; *)
(* a voice handler awaits the download and the posting of the transcription *)
(* before it calls invoke_flow.  graph.invoke is an ordinary call: the loop  *)
(* runs nothing else until it returns.                                       *)

\* variant: the graph is awaited, the loop runs other coroutines between the
\* steps of a cycle
event_loop_free_between_steps ==
    pc \in {"idle", "node_llm_query", "tools",
            "node_truncate_message_history_phase1",
            "node_truncate_message_history_phase2"}

\* the loop can run another coroutine: no handler is running, and a handler
\* inside invoke_flow is running until graph.invoke returned
event_loop_free == pc = "idle"

\* a voice update arrives: its handler starts and awaits bot.get_file and
\* bot.download_file
VoiceArrives ==
    /\ event_loop_free /\ nEvents + Cardinality(tasks) < MaxEvents
    /\ \E thread \in chats :
        tasks' = tasks \cup {[event |-> nEvents + Cardinality(tasks) + 1,
                              thread |-> thread, at |-> "download"]}
    /\ UNCHANGED <<call, config, messages, pc, cycle, sent, chats, nEvents>>

\* the download is there: the handler transcribes the file and awaits the
\* posting of the transcription
VoiceDownloaded ==
    /\ event_loop_free
    /\ \E task \in tasks :
        /\ task.at = "download"
        /\ tasks' = (tasks \ {task}) \cup {[task EXCEPT !.at = "reply"]}
    /\ UNCHANGED <<call, config, messages, pc, cycle, sent, chats, nEvents>>

\* the transcription is posted: the handler calls invoke_flow
VoiceEchoed ==
    /\ event_loop_free
    /\ \E task \in tasks, transcription \in Transcriptions,
          draw \in RandomDraws, response \in SecondaryResponses :
        /\ task.at = "reply"
        /\ tasks' = tasks \ {task}
        /\ LET input_message_text == voice_input(transcription)
           IN  /\ invoke_flow(task.thread, "voice", input_message_text, FALSE,
                              draw, response)
               /\ sent' = <<input_message_text>>
    /\ UNCHANGED <<call, config, chats>>

\* a text update arrives: its handler calls invoke_flow at once
TextArrives ==
    /\ nEvents + Cardinality(tasks) < MaxEvents
    /\ RouteText

InitAsync ==
    /\ config \in {c \in Configs : /\ c.RANDOM_RESPONSE_PROBABILITY = 50
                                    /\ c.MESSAGE_HISTORY_LIMIT = 1}
    /\ messages = [t \in Threads |-> <<>>]
    /\ pc = "idle"
    /\ cycle = NoCycle
    /\ sent = <<>>
    /\ chats = {"chat1"}
    /\ nEvents = 0
    /\ tasks = {}
    /\ call = NoCall

NextAsync ==
    \/ VoiceArrives
    \/ VoiceDownloaded
    \/ VoiceEchoed
    \/ TextArrives
    \/ NodeLlmQuery
    \/ NodeLlmQueryRaises
    \/ NodeTools
    \/ NodeTruncatePhase1
    \/ NodeTruncatePhase2
    \/ ReturnFromFlow
    \/ NextUpdate

SpecAsync == InitAsync /\ [][NextAsync]_vars

----------------------------------------------------------------------------
(* The two truncation phases on arbitrary histories *)

Shapes == {"human", "ai", "ai_tc", "tool", "system"}

shaped_message(shape, id, i) ==
    CASE shape = "human" ->
            HumanMessage(id, text_input(IF i % 2 = 1 THEN T_hi ELSE T_BoT), FALSE)
      [] shape = "ai" -> AIMessage(id, A_ok, FALSE)
      [] shape = "ai_tc" -> AIMessage(id, <<>>, TRUE)
      [] shape = "tool" -> ToolMessage(id, <<"r", "e", "s">>)
      [] shape = "system" -> SystemMessage(id, SYSTEM_PROMPT)

\* the message at a position of twice is the same message (same id) as the
\* first tool call, or tool result, of the history: a pair appended twice.
\* User and plain assistant messages always carry ids of their own.
history_of(shapes, twice) ==
    [i \in DOMAIN shapes |->
        LET same == {j \in 1..i : shapes[j] = shapes[i]}
            first == CHOOSE j \in same : \A k \in same : j <= k
            id == IF i \in twice /\ shapes[i] \in {"ai_tc", "tool"} THEN first ELSE i
        IN  shaped_message(shapes[i], id, i)]

Histories ==
    UNION {{history_of(shapes, twice) : shapes \in [1..n -> Shapes], twice \in SUBSET (1..n)} :
           n \in 0..MaxHist}

InitPrune ==
    /\ config \in Configs
    /\ \E history \in Histories :
        messages = [t \in Threads |-> IF t = "chat1" THEN history ELSE <<>>]
    /\ pc = "node_truncate_message_history_phase1"
    /\ cycle = [NoCycle EXCEPT !.kind = "text", !.decided = TRUE, !.outcome = "running"]
    /\ sent = <<>>
    /\ chats = {"chat1"}
    /\ nEvents = MaxEvents
    /\ tasks = {}
    /\ call = NoCall

NextPrune ==
    \/ NodeTruncatePhase1
    \/ NodeTruncatePhase2

SpecPrune == InitPrune /\ [][NextPrune]_vars

----------------------------------------------------------------------------
(* Properties *)

\* the text holds a trigger keyword, in any casing of the text
TriggerIn(text) == \E keyword \in KEYWORDS(BOT_USERNAME) : contains(lower(text), keyword)

\* the texts the policy can be applied to, and those among them with a trigger
PolicyTexts ==
    {text_input(text) : text \in UserTexts}
        \cup {voice_input(transcription) : transcription \in Transcriptions}
        \cup {video_input(video.transcription, video.caption) : video \in Videos}
        \cup Captions

TriggerTexts == {text \in PolicyTexts : TriggerIn(text)}

\* the answers of the secondary model that parse as a number, with the number
Parsable == {response \in SecondaryResponses : float(response).ok}

NumberOf == [response \in Parsable |-> float(response).value]

\* the event went through the graph (text, voice, video)
ThroughGraph == cycle.decided /\ cycle.kind \in {"text", "voice", "video"}

DrawBelow == cycle.draw < config.RANDOM_RESPONSE_PROBABILITY

IsScaffolding(m) == m.type \in {"system", "tool"} \/ (m.type = "ai" /\ m.tool_calls)

Conversational(msgs) == SelectSeq(msgs, LAMBDA m : ~IsScaffolding(m))

AtPruning ==
    pc \in {"node_truncate_message_history_phase1",
            "node_truncate_message_history_phase2", "end"}

\* C1: in a cycle of the graph whose latest message holds a trigger keyword
\* the decision is to engage, whatever the random draw, the secondary model is
\* not asked, the flow goes to node_llm_query and reaches the truncation
\* phases only after node_llm_query ran.
C1_MentionEngages ==
    (ThroughGraph /\ cycle.text \in TriggerTexts) =>
        /\ cycle.decision.result
        /\ cycle.decision.secondary_calls = 0
        /\ pc # "returned" /\ cycle.llm_queries = 0 => pc = "node_llm_query"
        /\ AtPruning => cycle.llm_queries >= 1

\* a text message with a keyword in mixed case engaged although the draw was
\* not below the probability
C1_Witness ==
    /\ ThroughGraph /\ cycle.kind = "text"
    /\ cycle.text = text_input(T_BoT)
    /\ ~DrawBelow
    /\ pc = "node_llm_query"

\* C2: whenever the policy is applied to an event and the random draw is below
\* the configured probability, the decision is to engage, also for a photo or
\* document whose caption is empty.
C2_RandomEngages ==
    (cycle.decided /\ DrawBelow) => cycle.decision.result

\* C3: the secondary model is asked at most once in a decision, and only when
\* the draw was not below the probability and the text holds no trigger.
C3_ShortCircuit ==
    cycle.decided =>
        /\ cycle.decision.secondary_calls \in {0, 1}
        /\ cycle.decision.secondary_calls = 1 =>
              ~DrawBelow /\ cycle.text \notin TriggerTexts /\ cycle.decision.mention_checked
        /\ DrawBelow => ~cycle.decision.mention_checked

C3_Witness ==
    /\ cycle.decided
    /\ cycle.decision.secondary_calls = 1
    /\ cycle.decision.result

\* C4: when the secondary model was asked and its answer parses as a number,
\* the decision is to engage exactly when the number is greater than the
\* threshold: 0.87 against 0.50 engages, 0.30 and 0.50 against 0.50 do not.
C4_ThresholdStrict ==
    (cycle.decided /\ cycle.decision.secondary_calls = 1
        /\ cycle.decision.response \in Parsable) =>
        /\ cycle.decision.result <=>
              NumberOf[cycle.decision.response]
                  > config.LLM_DECISSION_TO_RESPOND_THRESHOLD
        /\ (cycle.decision.response = R_087
              /\ config.LLM_DECISSION_TO_RESPOND_THRESHOLD = 50) => cycle.decision.result
        /\ (cycle.decision.response \in {R_030, R_050}
              /\ config.LLM_DECISSION_TO_RESPOND_THRESHOLD = 50) => ~cycle.decision.result

\* the answer equals the threshold and the flow went to the truncation phases
C4_Witness ==
    /\ ThroughGraph
    /\ cycle.decision.secondary_calls = 1
    /\ cycle.decision.response = R_050
    /\ config.LLM_DECISSION_TO_RESPOND_THRESHOLD = 50
    /\ pc = "node_truncate_message_history_phase1"

\* C5: when the answer of the secondary model does not parse, the decision is
\* not to engage and nothing is raised; the primary model is not invoked, and
\* a cycle of the graph goes through both truncation phases and ends with no
\* reply.
C5_FailClosed ==
    (cycle.decided /\ cycle.decision.secondary_calls = 1
        /\ cycle.decision.response \notin Parsable) =>
        /\ ~cycle.decision.result
        /\ cycle.outcome # "raised"
        /\ cycle.llm_queries = 0 /\ cycle.tool_runs = 0
        /\ ThroughGraph => pc # "node_llm_query" /\ pc # "tools"
        /\ pc = "returned" =>
              /\ cycle.outcome = "suppressed"
              /\ ThroughGraph => cycle.phase1_runs = 1 /\ cycle.phase2_runs = 1
              /\ \A i \in DOMAIN sent : sent[i] \notin PrimaryAnswers

C5_Witness ==
    /\ ThroughGraph
    /\ cycle.decision.secondary_calls = 1
    /\ cycle.decision.response = R_words
    /\ pc = "returned"
    /\ cycle.outcome = "suppressed"

\* C6: after phase 1 the history holds no system message, no tool message and
\* no AI message with tool calls, also when a tool call and its result are in
\* the history twice, and phase 1 run once more removes nothing.
C6_Sanitized ==
    pc = "node_truncate_message_history_phase2" =>
        LET history == messages[cycle.thread]
        IN  /\ \A i \in DOMAIN history : ~IsScaffolding(history[i])
            /\ _node_truncate_message_history_phase1(history) = <<>>
            /\ add_messages(history, _node_truncate_message_history_phase1(history))
                   = history
            /\ history = Conversational(cycle.pre_prune)

\* phase 1 ran on a history that held the same tool call and tool result twice
C6_Witness ==
    /\ pc = "node_truncate_message_history_phase2"
    /\ \E i, j, k, l \in DOMAIN cycle.pre_prune :
        /\ i < j /\ j < k /\ k < l
        /\ cycle.pre_prune[i].type = "ai" /\ cycle.pre_prune[i].tool_calls
        /\ cycle.pre_prune[j].type = "tool"
        /\ cycle.pre_prune[k] = cycle.pre_prune[i]
        /\ cycle.pre_prune[l] = cycle.pre_prune[j]

\* C7: when phase 2 is done the history holds at most MESSAGE_HISTORY_LIMIT
\* messages, for every limit, 0 included.
C7_Retention ==
    pc = "end" => Len(messages[cycle.thread]) <= config.MESSAGE_HISTORY_LIMIT

\* C8: after phase 1 and phase 2 the history is the most recent min(n, L) of
\* the n user and plain assistant messages it held, in order and unchanged.
C8_ExactRetention ==
    pc = "end" =>
        LET turns == Conversational(cycle.pre_prune)
            n == Len(turns)
            L == config.MESSAGE_HISTORY_LIMIT
            keep == IF n <= L THEN n ELSE L
        IN  messages[cycle.thread] = SubSeq(turns, n - keep + 1, n)

\* C9: a cycle started by invoke_flow is over only after phase 1 and phase 2
\* each ran once.
C9_PruningEveryCycle ==
    (ThroughGraph /\ pc = "returned") => cycle.phase1_runs = 1 /\ cycle.phase2_runs = 1

\* C10: in a cycle whose inbound message carries no_answer the primary model
\* and the tool node never run and no AI message is appended to the thread.
C10_NoAnswerNeverReasons ==
    (ThroughGraph /\ cycle.no_answer) =>
        /\ cycle.llm_queries = 0
        /\ cycle.tool_runs = 0
        /\ pc # "node_llm_query" /\ pc # "tools"

\* C11: for a video event nothing is ever sent to the chat and the event never
\* ends as replied, whatever the graph did: also when the primary model ran
\* and its answer is the last message of the thread.
C11_VideoNeverReplies ==
    cycle.kind = "video" => sent = <<>> /\ cycle.outcome # "replied"

\* a video event is over, the primary model answered in its cycle and the
\* answer is the last message of the thread
C11_Witness ==
    /\ cycle.kind = "video" /\ pc = "returned"
    /\ cycle.llm_queries >= 1
    /\ LET history == messages[cycle.thread]
       IN  /\ history # <<>>
           /\ history[Len(history)].type = "ai"
           /\ history[Len(history)].content \in PrimaryAnswers
\* C12: when a video event is over and the history limit is at least 1, the
\* transcript turn built for the event (carrying no_answer) is in the history
\* of its thread: also for a file that is too large, a file-info failure and
\* a failed transcription.
C12_VideoTurnKept ==
    (cycle.kind = "video" /\ pc = "returned" /\ config.MESSAGE_HISTORY_LIMIT >= 1) =>
        \E i \in DOMAIN messages[cycle.thread] :
            /\ messages[cycle.thread][i].type = "human"
            /\ messages[cycle.thread][i].no_answer
            /\ cycle.text # <<>>
            /\ messages[cycle.thread][i].content = cycle.text

\* C13: when the policy decided not to engage for a text, voice, photo or
\* document event, nothing at all is sent to the chat while the event is
\* handled, the primary model is not invoked and the event ends suppressed.
C13_NonEngagementSilent ==
    (cycle.decided /\ ~cycle.decision.result
        /\ cycle.kind \in {"text", "voice", "photo", "document"}) =>
        /\ sent = <<>>
        /\ cycle.llm_queries = 0
        /\ pc = "returned" => cycle.outcome = "suppressed"

\* the event ended with an exception of the primary or of the secondary model
ModelFailed ==
    /\ cycle.outcome = "raised"
    /\ cycle.llm_queries >= 1 \/ cycle.decision.secondary_calls = 1

\* C14: when a model invocation failed during the handling of an event, no
\* message was sent to the chat for that event, the handling is over and the
\* next update can be taken.
C14_FailureSilent ==
    ModelFailed =>
        /\ sent = <<>>
        /\ pc = "returned"
        /\ ENABLED NextUpdate

\* C15: when the handling of a voice, video, photo or document event is over,
\* normally or with an exception, none of the temporary files written for the
\* event exists any more.
C15_TempFilesDeleted ==
    (pc = "returned" /\ cycle.kind \in {"voice", "video", "photo", "document"}) =>
        cycle.temp_files = {}

\* one step of the reasoning engine: out of node_llm_query the flow goes to
\* tools exactly when the response appended last carries tool calls, and to
\* phase 1 otherwise; out of tools it goes back to node_llm_query; tools is
\* entered from node_llm_query only, node_llm_query from the decision or tools
C16_Step ==
    /\ (pc = "node_llm_query" /\ pc' # "returned") =>
          LET history == messages'[cycle.thread]
              response == history[Len(history)]
          IN  /\ response.type = "ai"
              /\ pc' = "tools" <=> response.tool_calls
              /\ pc' \in {"tools", "node_truncate_message_history_phase1"}
              /\ cycle'.llm_queries = cycle.llm_queries + 1
    /\ pc = "tools" =>
          /\ pc' = "node_llm_query"
          /\ cycle'.tool_runs = cycle.tool_runs + 1
          /\ cycle'.llm_queries = cycle.llm_queries
    /\ pc' = "tools" => pc = "node_llm_query"
    /\ pc' = "node_llm_query" => pc \in {"idle", "tools"}

ToolResultsPaired(history) ==
    \A i \in DOMAIN history :
        history[i].type = "tool" =>
            /\ i > 1
            /\ history[i - 1].type = "ai" /\ history[i - 1].tool_calls

\* every AI message with a tool call is followed by its tool message
ToolCallsAnswered(history) ==
    \A i \in DOMAIN history :
        (history[i].type = "ai" /\ history[i].tool_calls) =>
            /\ i < Len(history)
            /\ history[i + 1].type = "tool"

SystemTurns(msgs) == {i \in DOMAIN msgs : msgs[i].type = "system"}

C19_Step ==
    LET A == cycle'.thread
    IN  /\ \A B \in Threads \ {A} : messages'[B] = messages[B]
        /\ (pc = "idle" /\ cycle'.decided /\ cycle'.kind \in {"text", "voice", "video"}) =>
              /\ messages'[A] =
                    Append(messages[A],
                           HumanMessage(fresh_id(messages[A]), cycle'.text, cycle'.no_answer))
              /\ cycle'.decision =
                    _bot_should_respond(messages'[A], BOT_USERNAME, cycle'.draw,
                                        cycle'.decision.response)
        /\ (pc = "node_llm_query" /\ pc' # "returned") =>
              SubSeq(messages'[A], 1, Len(messages'[A]) - 1) = llm_input(messages[A])
        /\ pc = "node_truncate_message_history_phase1" =>
              messages'[A] = Conversational(messages[A])

\* C19: threads are independent: handling an event of one chat never changes
\* the history of another chat and uses only the history of its own chat.
C19_ThreadsIndependent == [][C19_Step]_vars

\* the primary model is queried for an event of chat2 while chat1 holds a
\* history of its own
C19_Witness ==
    /\ pc = "node_llm_query"
    /\ cycle.thread = "chat2"
    /\ messages["chat1"] # <<>>
    /\ messages["chat2"] # <<>>

\* a cycle of the graph is running
CycleRunning ==
    pc \in {"node_llm_query", "tools", "node_truncate_message_history_phase1",
            "node_truncate_message_history_phase2"}

\* while a cycle is running every step belongs to it: the event and its
\* thread stay the same, no other cycle starts, no other handler moves and
\* only the thread of the cycle is written
C20_Step ==
    CycleRunning =>
        /\ cycle'.thread = cycle.thread /\ cycle'.kind = cycle.kind
        /\ cycle'.text = cycle.text /\ cycle'.draw = cycle.draw
        /\ nEvents' = nEvents
        /\ tasks' = tasks
        /\ cycle'.llm_queries >= cycle.llm_queries
        /\ cycle'.phase1_runs >= cycle.phase1_runs
        /\ \A thread \in Threads \ {cycle.thread} : messages'[thread] = messages[thread]

\* C20: the cycles of two events of one chat never interleave: once a cycle
\* has started, every step until it has completed or failed is a step of that
\* cycle, and events that arrived meanwhile start their cycle afterwards.
C20_OneCycleAtATime == [][C20_Step]_vars

\* a cycle is running while the handler of another event of the same chat is
\* suspended at an await
C20_Witness ==
    /\ CycleRunning
    /\ pc = "node_truncate_message_history_phase1"
    /\ \E task \in tasks : task.thread = cycle.thread

----------------------------------------------------------------------------
(* Handlers of two chats on the one event loop *)

InitAsyncTwoChats ==
    /\ config \in {c \in Configs : /\ c.RANDOM_RESPONSE_PROBABILITY = 50
                                    /\ c.MESSAGE_HISTORY_LIMIT = 1}
    /\ messages = [t \in Threads |-> <<>>]
    /\ pc = "idle"
    /\ cycle = NoCycle
    /\ sent = <<>>
    /\ chats = Threads
    /\ nEvents = 0
    /\ tasks = {}
    /\ call = NoCall

SpecAsyncTwoChats == InitAsyncTwoChats /\ [][NextAsync]_vars

\* the cycle of an event is inside a model or a tool invocation
InsideInvocation == pc \in {"node_llm_query", "tools"}

\* C21: one slow conversation does not stall the others: while the cycle of
\* an event of chat A is inside a model or tool invocation, a text event that
\* arrives for another chat B can start its own cycle.
C21_OthersNotStalled ==
    (InsideInvocation /\ nEvents + Cardinality(tasks) < MaxEvents)
        => \E B \in chats \ {cycle.thread} :
               ENABLED (TextArrives /\ cycle'.thread = B)

\* the history holds a turn of the given type with the given content
HasTurn(history, type, content) ==
    \E j \in DOMAIN history :
        history[j].type = type /\ history[j].content = content

\* C22: every processed inbound event has its turn in its thread's history
\* (the turn that carries the event's text), and every message sent to the
\* chat is the content of an assistant turn of that history; photo and
\* document events included.
C22_RepliesAreHistoryTurns ==
    (pc = "returned" /\ cycle.decided /\ cycle.outcome \in {"replied", "suppressed"})
        => LET history == messages[cycle.thread]
           IN  /\ \E j \in DOMAIN history :
                      /\ history[j].type = "human"
                      /\ contains(history[j].content, cycle.text)
               /\ \A i \in DOMAIN sent : HasTurn(history, "ai", sent[i])

----------------------------------------------------------------------------
(* Loading config.ini *)

\* an option of config.ini: its raw text, or the option is not there
Option(text) == [present |-> TRUE, text |-> text]
NoOption == [present |-> FALSE, text |-> <<>>]

\* ConfigParser.getfloat: float() of the raw text; NoOptionError when the
\* option is missing, ValueError when float() rejects the text
getfloat(option) == IF option.present THEN float(option.text) ELSE ValueError

\* ConfigParser.getint: int() of the raw text (white space stripped, an
\* optional sign, digits)
getint(option) ==
    LET s == strip(option.text)
        signed == s # <<>> /\ s[1] \in {"+", "-"}
        sign == IF signed /\ s[1] = "-" THEN -1 ELSE 1
        body == IF signed THEN Tail(s) ELSE s
    IN  IF option.present /\ body # <<>> /\ all_digits(body)
        THEN [ok |-> TRUE, value |-> sign * int_value(body)]
        ELSE ValueError

\* ConfigManager.__init__: the three settings are converted and stored as
\* they are; an exception of a conversion ends the import of config.py
ConfigManager(ini) ==
    LET probability == getfloat(ini.RANDOM_RESPONSE_PROBABILITY)
        threshold == getfloat(ini.LLM_DECISSION_TO_RESPOND_THRESHOLD)
        limit == getint(ini.MESSAGE_HISTORY_LIMIT)
    IN  [ok |-> probability.ok /\ threshold.ok /\ limit.ok,
         CONFIG |-> [RANDOM_RESPONSE_PROBABILITY |-> probability.value,
                     LLM_DECISSION_TO_RESPOND_THRESHOLD |-> threshold.value,
                     MESSAGE_HISTORY_LIMIT |-> limit.value]]

\* the files the process is started with
IniFiles ==
    [RANDOM_RESPONSE_PROBABILITY :
        {Option(<<"0", ".", "5", "0">>), Option(<<"1", ".", "5", "0">>),
         Option(<<"-", "0", ".", "2", "0">>), Option(<<"a", "b", "c">>), NoOption},
     LLM_DECISSION_TO_RESPOND_THRESHOLD :
        {Option(<<"0", ".", "5", "0">>), Option(<<"-", "0", ".", "2", "0">>),
         Option(<<"1", ".", "5", "0">>), NoOption},
     MESSAGE_HISTORY_LIMIT : {Option(<<"1">>)}]

\* start of the process: CONFIG = ConfigManager() runs at import; when it
\* raises, the process ends before the bot exists
InitConfig ==
    /\ \E ini \in IniFiles :
        LET loaded == ConfigManager(ini)
        IN  /\ config = loaded.CONFIG
            /\ pc = IF loaded.ok THEN "idle" ELSE "not_started"
    /\ messages = [t \in Threads |-> <<>>]
    /\ cycle = NoCycle
    /\ sent = <<>>
    /\ chats = {"chat1"}
    /\ nEvents = 0
    /\ tasks = {}
    /\ call = NoCall

SpecConfig == InitConfig /\ [][Next]_vars

InUnitInterval(hundredths) == hundredths \in 0..100

\* C23: no decision is taken with a random-response probability or a decision
\* threshold outside [0,1]: a configuration with such a value does not load.
C23_ConfigValidated ==
    cycle.decided
        => /\ InUnitInterval(config.RANDOM_RESPONSE_PROBABILITY)
           /\ InUnitInterval(config.LLM_DECISSION_TO_RESPOND_THRESHOLD)

----------------------------------------------------------------------------
(* The mention detector called on its own *)

\* casings of the handle the bot is registered under
Handles == {<<"a", "i">>, <<"A", "i">>, <<"A", "I">>}

\* what a message can hold: the bot's names and handle references in several
\* casings, the handle of somebody else, plain words, nothing
MentionWords ==
    {<<"cy_p", "cy_e", "cy_t", "cy_r", "cy_o", "cy_v", "cy_i", "cy_ch">>,
     <<"CY_P", "cy_e", "cy_t", "cy_r", "cy_o", "cy_v", "cy_i", "cy_ch">>,
     <<"cy_b", "cy_o", "cy_t">>, <<"CY_B", "CY_O", "CY_T">>,
     <<"b", "o", "t">>, T_BoT,
     <<"@", "a", "i">>, <<"@", "A", "i">>, <<"@", "A", "I">>,
     <<"@", "b", "o", "b">>, <<"a", "i">>, T_hi, <<>>}

MentionTexts ==
    {before \o word \o after :
        before \in {<<>>, <<"h", "i", " ">>},
        word \in MentionWords,
        after \in {<<>>, <<"!">>}}

InitMention ==
    /\ config \in {c \in Configs : /\ c.RANDOM_RESPONSE_PROBABILITY = 50
                                    /\ c.MESSAGE_HISTORY_LIMIT = 1}
    /\ messages = [t \in Threads |-> <<>>]
    /\ pc = "idle"
    /\ cycle = NoCycle
    /\ sent = <<>>
    /\ chats = {"chat1"}
    /\ nEvents = 0
    /\ tasks = {}
    /\ \E message \in MentionTexts, bot_username \in Handles :
        call = [fn |-> "_is_bot_mentioned", message |-> message,
                bot_username |-> bot_username, returned |-> FALSE, result |-> FALSE]

\* self._is_bot_mentioned(message, bot_username) returns
CallIsBotMentioned ==
    /\ call.fn = "_is_bot_mentioned" /\ ~call.returned
    /\ call' = [call EXCEPT !.returned = TRUE,
                            !.result = _is_bot_mentioned(call.message, call.bot_username)]
    /\ UNCHANGED <<config, messages, pc, cycle, sent, chats, nEvents, tasks>>

NextMention == CallIsBotMentioned

SpecMention == InitMention /\ [][NextMention]_vars

\* the text holds one of the bot's names, in any casing
NamesBot(message) ==
    \E keyword \in KEYWORDS(<<>>) \ {<<"@">>} : contains(lower(message), keyword)

\* the text holds an @-reference to the handle, in any casing of either
RefersToHandle(message, bot_username) ==
    contains(lower(message), <<"@">> \o lower(bot_username))

\* C24: the detector returns true for every message that holds the bot's name
\* or an @-reference to its handle, whatever the casing of the message and
\* of the handle it is called with.
C24_MentionAnyCasing ==
    (call.fn = "_is_bot_mentioned" /\ call.returned
        /\ (NamesBot(call.message) \/ RefersToHandle(call.message, call.bot_username)))
        => call.result

\* C25: the detector returns false for an empty text and for every text that
\* holds none of the bot's names and no reference to its handle, and calling
\* it changes no thread history and invokes no model.
C25_NoMentionNoSideEffect ==
    (call.fn = "_is_bot_mentioned" /\ call.returned)
        => /\ (\/ call.message = <<>>
               \/ ~(NamesBot(call.message)
                      \/ RefersToHandle(call.message, call.bot_username)))
                  => ~call.result
           /\ messages = [t \in Threads |-> <<>>]
           /\ cycle = NoCycle

\* a text that refers to the handle of somebody else was looked at and refused
C25_Witness ==
    /\ call.fn = "_is_bot_mentioned" /\ call.returned /\ ~call.result
    /\ contains(call.message, <<"@", "b", "o", "b">>)

----------------------------------------------------------------------------
(* The reasoning loop without a bound on the tool requests of the model *)

\* graph.invoke is called without "recursion_limit" in its config: LangGraph
\* runs at most its default number of supersteps and then raises
\* GraphRecursionError
RECURSION_LIMIT == 25

\* supersteps the running cycle has taken
supersteps ==
    cycle.llm_queries + cycle.tool_runs + cycle.phase1_runs + cycle.phase2_runs

AtNode ==
    pc \in {"node_llm_query", "tools", "node_truncate_message_history_phase1",
            "node_truncate_message_history_phase2"}

\* the model answers; it may request the tool every time it is asked
LoopLlmQuery ==
    /\ pc = "node_llm_query" /\ supersteps < RECURSION_LIMIT
    /\ \E wants_tool \in BOOLEAN, answer \in PrimaryAnswers :
        _node_llm_query(wants_tool, answer)
    /\ cycle' = [cycle EXCEPT !.llm_queries = @ + 1]
    /\ UNCHANGED <<call, config, sent, chats, tasks, nEvents>>

LoopTools == supersteps < RECURSION_LIMIT /\ NodeTools

LoopTruncatePhase1 == supersteps < RECURSION_LIMIT /\ NodeTruncatePhase1

LoopTruncatePhase2 == supersteps < RECURSION_LIMIT /\ NodeTruncatePhase2

\* the limit is reached before the graph reached END: graph.invoke raises,
\* nothing catches it, the thread keeps the last checkpoint
GraphRecursionError ==
    /\ AtNode /\ supersteps >= RECURSION_LIMIT
    /\ pc' = "returned"
    /\ cycle' = [cycle EXCEPT !.outcome = "raised"]
    /\ UNCHANGED <<call, config, messages, sent, chats, tasks, nEvents>>

\* one text event, every model and tool invocation returns
InitLoop ==
    /\ config \in {c \in Configs : /\ c.RANDOM_RESPONSE_PROBABILITY = 50
                                    /\ c.MESSAGE_HISTORY_LIMIT = 1}
    /\ messages = [t \in Threads |-> <<>>]
    /\ pc = "idle"
    /\ cycle = NoCycle
    /\ sent = <<>>
    /\ chats = {"chat1"}
    /\ nEvents = MaxEvents - 1
    /\ tasks = {}
    /\ call = NoCall

NextLoop ==
    \/ RouteText
    \/ LoopLlmQuery
    \/ LoopTools
    \/ LoopTruncatePhase1
    \/ LoopTruncatePhase2
    \/ GraphRecursionError
    \/ ReturnFromFlow
    \/ NextUpdate

SpecLoop == InitLoop /\ [][NextLoop]_vars

\* C26: when every model and tool invocation returns, an engaged cycle leaves
\* the query/tool loop, runs both pruning phases and ends in a terminal state
\* (replied or suppressed); nothing but the model's own choice ends the loop.
C26_LoopEndsPruned ==
    (pc = "returned" /\ ThroughGraph /\ cycle.decision.result)
        => /\ cycle.phase1_runs = 1 /\ cycle.phase2_runs = 1
           /\ cycle.outcome \in {"replied", "suppressed"}

----------------------------------------------------------------------------
(* The turn list for the secondary model, built on its own *)

MaxPrompt == 7

\* what a thread can hold when the decision is taken: user, assistant and
\* system turns (the latter left by an aborted cycle), the inbound turn last
PromptHistories ==
    UNION {{history_of(shapes \o <<"human">>, {}) :
                shapes \in [1..n -> {"human", "ai", "system"}]} :
           n \in 0..(MaxPrompt - 1)}

InitPrompt ==
    /\ config \in {c \in Configs : /\ c.RANDOM_RESPONSE_PROBABILITY = 50
                                    /\ c.MESSAGE_HISTORY_LIMIT = 0}
    /\ \E history \in PromptHistories :
        /\ messages = [t \in Threads |-> IF t = "chat1" THEN history ELSE <<>>]
        /\ call = [fn |-> "should_respond_prompt", state_messages |-> history,
                   returned |-> FALSE, result |-> <<>>]
    /\ pc = "idle"
    /\ cycle = NoCycle
    /\ sent = <<>>
    /\ chats = {"chat1"}
    /\ nEvents = 0
    /\ tasks = {}

\* _bot_should_respond builds the list it invokes llmShouldReply with
CallShouldRespondPrompt ==
    /\ call.fn = "should_respond_prompt" /\ ~call.returned
    /\ call' = [call EXCEPT !.returned = TRUE,
                            !.result = should_respond_prompt(call.state_messages)]
    /\ UNCHANGED <<config, messages, pc, cycle, sent, chats, nEvents, tasks>>

NextPrompt == CallShouldRespondPrompt

SpecPrompt == InitPrompt /\ [][NextPrompt]_vars

\* the last n elements of a sequence, all of it when it is shorter
LastTurns(seq, n) ==
    LET k == IF Len(seq) < n THEN Len(seq) ELSE n
    IN  [i \in 1..k |-> seq[Len(seq) - k + i]]

\* C27: the list sent to the secondary model is the instruction turn, the
\* non-system turns among the last 6 turns of the thread in their order
\* (the latest inbound turn last), and the instruction turn again; it holds
\* no other system turn and at most 6 history turns, and the thread history
\* is as it was.
C27_SecondaryPrompt ==
    (call.fn = "should_respond_prompt" /\ call.returned)
        => LET prompt == call.result
               history == call.state_messages
               instruction == SystemMessage(0, SYSTEM_PROMPT_SHOULD_RESPOND)
               middle == SubSeq(prompt, 2, Len(prompt) - 1)
           IN  /\ Len(prompt) >= 3
               /\ prompt[1] = instruction /\ prompt[Len(prompt)] = instruction
               /\ middle = SelectSeq(LastTurns(history, 6), LAMBDA m : m.type # "system")
               /\ \A i \in DOMAIN middle : middle[i].type # "system"
               /\ Len(middle) <= 6
               /\ middle[Len(middle)] = history[Len(history)]
               /\ messages["chat1"] = history

\* a thread longer than the window, with a system turn inside the window
C27_Witness ==
    /\ call.fn = "should_respond_prompt" /\ call.returned
    /\ Len(call.state_messages) > 6
    /\ \E i \in DOMAIN call.state_messages :
        /\ i > Len(call.state_messages) - 6
        /\ call.state_messages[i].type = "system"
    /\ Len(call.result) < 8

\* C28: for a text event and a transcribed voice event, something is sent to
\* the chat if and only if the policy engaged in this cycle and the reasoning
\* completed; what is sent is the content of the final assistant turn of the
\* cycle, once, and nothing else.
C28_ReplyIffEngaged ==
    (pc = "returned" /\ cycle.decided /\ cycle.kind \in {"text", "voice"})
        => LET history == messages[cycle.thread]
               last == history[Len(history)]
               completed == cycle.decision.result /\ cycle.phase2_runs = 1
           IN  IF completed
               THEN /\ history # <<>> /\ last.type = "ai" /\ ~last.tool_calls
                    /\ sent = <<last.content>>
               ELSE sent = <<>>

\* a cycle starts: the inbound turn of an event is appended to its thread.
\* No event of the same chat that arrived earlier is still waiting.
C29_Step ==
    (nEvents' = nEvents + 1 /\ messages' # messages)
        => LET started == IF tasks' = tasks
                          THEN nEvents + Cardinality(tasks) + 1
                          ELSE (CHOOSE task \in tasks \ tasks' : TRUE).event
           IN  \A task \in tasks' :
                   task.thread = cycle'.thread => task.event > started

\* C29: the turns of one conversation are persisted in the order in which
\* the events arrived, also when an earlier voice event is still awaiting its
\* download or the posting of its transcription.
C29_ArrivalOrder == [][C29_Step]_vars

----------------------------------------------------------------------------
(* The first iteration, petrovicai.py: one handler, a deque per chat *)

\* messages one run holds, and the length of the deques (MESSAGE_HISTORY_LIMIT
\* is 20 in petrovicai.py; the deque behaves alike at every length)
MaxMessages == 4
MaxDeque == 3

\* the probability of petrovicai.py, in hundredths
RANDOM_RESPONSE_PROBABILITY == 15

T_cy_Bot == <<"CY_B", "cy_o", "cy_t">>
T_at_ai == <<"@", "a", "i">>
FirstTexts == {T_hi, T_cy_Bot, T_at_ai}
ContentTypes == {"text", "photo", "document"}
SENT_AN_IMAGE == <<" ", "s", "e", "n", "t", " ", "a", "n", " ", "i", "m", "a", "g", "e", ".">>
SENT_A_FILE == <<" ", "s", "e", "n", "t", " ", "a", " ", "f", "i", "l", "e", ".">>
APOLOGY == <<"cy:sorry, I cannot handle your request now">>

\* deque(maxlen).append: the oldest entry is dropped from a full deque
update_message_history(history, role, content) ==
    LET appended == Append(history, [role |-> role, content |-> content])
    IN  IF Len(appended) > MaxDeque THEN Tail(appended) ELSE appended

\* no text and no caption: False; the handle is lowered here
is_bot_mentioned(message_content) ==
    IF message_content = <<>> THEN FALSE
    ELSE \E keyword \in {<<"cy_p", "cy_e", "cy_t", "cy_r", "cy_o", "cy_v", "cy_i", "cy_ch">>,
                         <<"cy_b", "cy_o", "cy_t">>,
                         <<"@">> \o lower(BOT_USERNAME)} :
            contains(lower(message_content), keyword)

\* handle_message.  The guard reads chat_histories[chat_id][0], the oldest
\* entry of the deque.  is_direct_mention is a local that only the photo
\* branch assigns, so line 117 raises UnboundLocalError for every other
\* content type, after the message was saved.  get_openai_response returns
\* None (here the empty text) when the model call failed.
handle_message ==
    /\ pc = "idle" /\ nEvents < MaxMessages
    /\ \E chat_id \in chats, content_type \in ContentTypes, text \in FirstTexts,
          draw \in RandomDraws, response \in PrimaryAnswers \cup {<<>>} :
        LET history == messages[chat_id]
            started == NewCycle(chat_id, content_type, text, FALSE, draw, FALSE, NotConsulted)
            saved == update_message_history(history, "user",
                        CASE content_type = "text" -> text_input(text)
                          [] content_type = "photo" -> user_name \o SENT_AN_IMAGE
                          [] content_type = "document" -> user_name \o SENT_A_FILE)
            is_direct_mention == is_bot_mentioned(text)
            should_respond == draw < RANDOM_RESPONSE_PROBABILITY
        IN  IF history # <<>> /\ history[1].role = "assistant"
            THEN /\ messages' = messages
                 /\ sent' = <<>>
                 /\ cycle' = [started EXCEPT !.outcome = "ignored"]
            ELSE IF content_type # "photo"
            THEN /\ messages' = [messages EXCEPT ![chat_id] = saved]
                 /\ sent' = <<>>
                 /\ cycle' = [started EXCEPT !.outcome = "raised"]
            ELSE IF ~(is_direct_mention \/ should_respond)
            THEN /\ messages' = [messages EXCEPT ![chat_id] = saved]
                 /\ sent' = <<>>
                 /\ cycle' = [started EXCEPT !.outcome = "suppressed"]
            ELSE IF response # <<>>
            THEN /\ messages' = [messages EXCEPT ![chat_id] =
                                    update_message_history(saved, "assistant", response)]
                 /\ sent' = <<response>>
                 /\ cycle' = [started EXCEPT !.llm_queries = 1, !.outcome = "replied"]
            ELSE /\ messages' = [messages EXCEPT ![chat_id] = saved]
                 /\ sent' = <<APOLOGY>>
                 /\ cycle' = [started EXCEPT !.llm_queries = 1, !.outcome = "apologised"]
    /\ pc' = "returned"
    /\ nEvents' = nEvents + 1
    /\ UNCHANGED <<call, config, chats, tasks>>

InitFirst ==
    /\ config \in {c \in Configs : /\ c.RANDOM_RESPONSE_PROBABILITY = 50
                                    /\ c.MESSAGE_HISTORY_LIMIT = 1}
    /\ messages = [t \in Threads |-> <<>>]
    /\ pc = "idle"
    /\ cycle = NoCycle
    /\ sent = <<>>
    /\ chats = {"chat1"}
    /\ nEvents = 0
    /\ tasks = {}
    /\ call = NoCall

NextFirst ==
    \/ handle_message
    \/ NextUpdate

SpecFirst == InitFirst /\ [][NextFirst]_vars

\* the most recent entry of the chat's history is an assistant entry
LatestIsAssistant(history) ==
    history # <<>> /\ history[Len(history)].role = "assistant"

\* C30: in the first iteration a message is ignored by the self-reply guard
\* only when the most recent entry of the chat's history is an assistant
\* entry (so a chat cannot stay unresponsive: the next recorded message ends
\* that condition).
C30_GuardOnLatest ==
    (pc = "returned" /\ cycle.outcome = "ignored")
        => LatestIsAssistant(messages[cycle.thread])
====
